---------------------------- MODULE Spec2Model ----------------------------
(***************************************************************************)
(* Foosball match ledger of src/src/App.jsx: the live match session of     *)
(* GameScreen, the transactional match commit of handleGameEnd and the     *)
(* season closure of handleCloseSeason, run by several devices against    *)
(* one shared document store.                                              *)
(*                                                                         *)
(* The store's own primitives are modelled by their documented contract:   *)
(* runTransaction reads documents one by one, buffers its writes and       *)
(* commits them atomically provided no document it read has been written   *)
(* since (otherwise it runs the update function again, five attempts in    *)
(* all); addDoc, updateDoc and a write batch are each one atomic write     *)
(* that the writing device sees in its own snapshot at once, while other   *)
(* devices see it when their snapshot listener fires.                      *)
(***************************************************************************)
EXTENDS Integers, Sequences, FiniteSets, TLC

\* ------------------------------------------------------------------ bounds
\* Goals one match session may record in the deep session specification.
MaxGoals == 12
\* Transactions (handleGameEnd calls) over one run of the model.
MaxTx == 2
\* Season records over one run of the model.
MaxSeasons == 2
\* A rating late in a long season, low enough for one lost match to pass zero.
LowRating == 5
\* Goals one match session may record in the position-swap specification.
MaxSwapGoals == 3
\* Ratings of the rating-delta specification lie within Baseline -/+ Spread.
Spread == 420
\* The weaker team of the rating-delta specification is at Baseline or
\* Baseline - Gap.
Gap == 200

\* --------------------------------------------------------- program constants
Baseline == 1500        \* score of a new player, and of every player after a closure
Base == 10              \* computeScoreChange: base
DiffScale == 40         \* computeScoreChange: diff / 40
MinDelta == 1           \* clamp(dynamic, 1, 20)
MaxDelta == 20
ShutoutBonus == 5
DeuceScore == 5         \* winningScoreFor: team1 === 5 && team2 === 5
DeuceTarget == 7
NormalTarget == 6
MaxAttempts == 5        \* runTransaction's default number of attempts
FirstSeason == 1        \* useState({ currentSeason: 1 })

Devices == {"d1", "d2"}
Players == 1 .. 5       \* document ids, in the order a snapshot lists them
Durations == {1}        \* Date.now() - startTimeRef.current, in ticks
TxIds == 1 .. MaxTx

NoWinner == "none"      \* useState(null) of winner
Team1 == "Team 1"
Team2 == "Team 2"
NoPlayer == [id |-> 0, score |-> 0]   \* an empty selection slot (null)

\* ------------------------------------------------------------ pure functions
\* clamp without its lower bound.
clampFromAbove(n, min, max) == IF max < n THEN max ELSE n

\* const clamp = (n, min, max) => Math.max(min, Math.min(max, n))
clamp(n, min, max) ==
    LET lo == IF max < n THEN max ELSE n
    IN  IF min > lo THEN min ELSE lo

\* Math.floor in the place of Math.round.
RoundFloor(diff2) ==
    (2 * DiffScale * Base + diff2) \div (2 * DiffScale)

\* Math.round(Base + diff / DiffScale) for diff = diff2 / 2, a multiple of one
\* half: Math.round(x) is floor(x + 1/2), and \div is floor division.
RoundHalfUp(diff2) ==
    (2 * DiffScale * Base + diff2 + DiffScale) \div (2 * DiffScale)

\* computeScoreChange with the shutout bonus added to the loser's loss as well.
computeScoreChangeBonusBoth(sumWinner, sumLoser, isShutout) ==
    LET dynamic == clamp(RoundHalfUp(sumLoser - sumWinner), MinDelta, MaxDelta)
        shutoutBonus == IF isShutout THEN ShutoutBonus ELSE 0
    IN  [winDelta |-> dynamic + shutoutBonus, loseDelta |-> dynamic + shutoutBonus]

\* computeScoreChange(avgWinnerScore, avgLoserScore, isShutout), given the two
\* sums of ratings (each average is its sum / 2).
computeScoreChange(sumWinner, sumLoser, isShutout) ==
    LET dynamic == clamp(RoundHalfUp(sumLoser - sumWinner), MinDelta, MaxDelta)
        shutoutBonus == IF isShutout THEN ShutoutBonus ELSE 0
    IN  [winDelta |-> dynamic + shutoutBonus, loseDelta |-> dynamic]

winningScoreFor(team1, team2) ==
    IF team1 = DeuceScore /\ team2 = DeuceScore THEN DeuceTarget ELSE NormalTarget

\* ------------------------------------------------------------------- state
VARIABLES
    \* the store
    playersDoc,        \* collection "players": id -> document (with its version)
    matches,           \* collection "matches", in commit order
    seasonHistoryCol,  \* collection "seasonHistory", in insertion order
    appStateDoc,       \* document appState/config
    tx,                \* the runTransaction calls of handleGameEnd
    \* App state of each device
    players,           \* snapshot of collection "players"
    appState,          \* snapshot of appState/config
    activeView,
    isGameActive,
    slots,             \* PlayerSelectionScreen
    \* GameScreen state of each device
    team1, team2, score, goalHistory, isSwapped, winner,
    \* handleCloseSeason of each device: position and captured values
    closePc, closeWinner, closeSeasonNo

storeVars == <<playersDoc, matches, seasonHistoryCol, appStateDoc, tx>>
appVars == <<players, appState, activeView, isGameActive, slots>>
gameVars == <<team1, team2, score, goalHistory, isSwapped, winner>>
closeVars == <<closePc, closeWinner, closeSeasonNo>>
vars == <<storeVars, appVars, gameVars, closeVars>>

\* handleAddPlayer's document, with the title counter a player has before any
\* closure (seasonsWon is read as seasonsWon || 0) and the document's version.
NewPlayerDoc ==
    [score |-> Baseline, gamesWon |-> 0, gamesLost |-> 0, gamesAsStriker |-> 0,
     gamesAsDefender |-> 0, totalGames |-> 0, goalsAsStriker |-> 0,
     goalsAsDefender |-> 0, shutoutWins |-> 0, totalPlaytime |-> 0,
     seasonsWon |-> 0, ver |-> 0]

NoTeam == [striker |-> NoPlayer, defender |-> NoPlayer]
NoScore == [team1 |-> 0, team2 |-> 0]
\* handleCloseSeason's winner before it has run: no player.
NoCloseWinner == [id |-> 0, seasonsWon |-> 0]

IdleTx ==
    [pc |-> "free", dev |-> "d1", winner |-> NoWinner, team1 |-> NoTeam,
     team2 |-> NoTeam, score |-> NoScore, goalHistory |-> <<>>, duration |-> 0,
     snaps |-> <<>>, attempts |-> 0]

Init ==
    /\ playersDoc = [p \in Players |-> NewPlayerDoc]
    /\ matches = <<>>
    /\ seasonHistoryCol = <<>>
    /\ appStateDoc = [currentSeason |-> FirstSeason]
    /\ tx = [t \in TxIds |-> IdleTx]
    /\ players = [d \in Devices |-> [p \in Players |-> NewPlayerDoc]]
    /\ appState = [d \in Devices |-> [currentSeason |-> FirstSeason]]
    /\ activeView = [d \in Devices |-> "new_game"]
    /\ isGameActive = [d \in Devices |-> FALSE]
    /\ slots = [d \in Devices |-> <<NoPlayer, NoPlayer, NoPlayer, NoPlayer>>]
    /\ team1 = [d \in Devices |-> NoTeam]
    /\ team2 = [d \in Devices |-> NoTeam]
    /\ score = [d \in Devices |-> NoScore]
    /\ goalHistory = [d \in Devices |-> <<>>]
    /\ isSwapped = [d \in Devices |-> FALSE]
    /\ winner = [d \in Devices |-> NoWinner]
    /\ closePc = [d \in Devices |-> "idle"]
    /\ closeWinner = [d \in Devices |-> NoCloseWinner]
    /\ closeSeasonNo = [d \in Devices |-> 0]


\* ------------------------------------------------------ player selection
IsAlready(d, p) == \E i \in 1 .. 4 : slots[d][i].id = p

FirstEmpty(d) ==
    IF \E i \in 1 .. 4 : slots[d][i] = NoPlayer
    THEN CHOOSE i \in 1 .. 4 :
            /\ slots[d][i] = NoPlayer
            /\ \A j \in 1 .. i - 1 : slots[d][j] # NoPlayer
    ELSE 0

\* The player object a card of the selection screen hands to onSelect: the
\* device's snapshot of that player, with the rating it shows there.
PlayerObj(d, p) == [id |-> p, score |-> players[d][p].score]

\* handleSelectPlayer without the isAlready branch: every click fills a slot.
handleSelectPlayerAlwaysAdds(d, p) ==
    /\ ~isGameActive[d]
    /\ activeView[d] = "new_game"
    /\ slots' = [slots EXCEPT ![d] =
            IF FirstEmpty(d) = 0 THEN @
            ELSE [@ EXCEPT ![FirstEmpty(d)] = PlayerObj(d, p)]]
    /\ slots' # slots
    /\ UNCHANGED <<storeVars, players, appState, activeView, isGameActive,
                   gameVars, closeVars>>

\* handleSelectPlayer(player): a selected player is taken out of its slot, any
\* other goes to the first empty slot, and nothing happens when all are full.
handleSelectPlayer(d, p) ==
    /\ ~isGameActive[d]
    /\ activeView[d] = "new_game"
    /\ slots' = [slots EXCEPT ![d] =
            IF IsAlready(d, p)
            THEN [i \in 1 .. 4 |-> IF @[i].id = p THEN NoPlayer ELSE @[i]]
            ELSE IF FirstEmpty(d) = 0 THEN @
            ELSE [@ EXCEPT ![FirstEmpty(d)] = PlayerObj(d, p)]]
    /\ slots' # slots
    /\ UNCHANGED <<storeVars, players, appState, activeView, isGameActive,
                   gameVars, closeVars>>

ready(d) == \A i \in 1 .. 4 : slots[d][i] # NoPlayer

\* start -> handleGameStart -> GameScreen mounts: team1 = {defender: slots[0],
\* forward: slots[1]}, team2 = {forward: slots[2], defender: slots[3]}, and the
\* session starts at 0:0 with an empty goal log, unswapped, without a winner.
handleGameStart(d) ==
    /\ ~isGameActive[d]
    /\ activeView[d] = "new_game"
    /\ ready(d)
    /\ isGameActive' = [isGameActive EXCEPT ![d] = TRUE]
    /\ team1' = [team1 EXCEPT ![d] = [striker |-> slots[d][2], defender |-> slots[d][1]]]
    /\ team2' = [team2 EXCEPT ![d] = [striker |-> slots[d][3], defender |-> slots[d][4]]]
    /\ score' = [score EXCEPT ![d] = NoScore]
    /\ goalHistory' = [goalHistory EXCEPT ![d] = <<>>]
    /\ isSwapped' = [isSwapped EXCEPT ![d] = FALSE]
    /\ winner' = [winner EXCEPT ![d] = NoWinner]
    /\ UNCHANGED <<storeVars, players, appState, activeView, slots, closeVars>>

\* ---------------------------------------------------------- match session
\* The effect without its second branch: a declared winner is never taken back.
WinnerEffectNeverCleared(sc, w) ==
    LET winningScore == winningScoreFor(sc.team1, sc.team2)
    IN  IF w = NoWinner /\ (sc.team1 >= winningScore \/ sc.team2 >= winningScore)
        THEN (IF sc.team1 > sc.team2 THEN Team1 ELSE Team2)
        ELSE w

\* One run of GameScreen's effect on (score, winner): the value of winner after it.
WinnerEffect(sc, w) ==
    LET winningScore == winningScoreFor(sc.team1, sc.team2)
    IN  IF w = NoWinner /\ (sc.team1 >= winningScore \/ sc.team2 >= winningScore)
        THEN (IF sc.team1 > sc.team2 THEN Team1 ELSE Team2)
        ELSE IF w # NoWinner /\ sc.team1 < winningScore /\ sc.team2 < winningScore
        THEN NoWinner
        ELSE w

\* The effect runs after every render whose score or winner changed, and is
\* flushed before the next event is handled: the winner once it no longer changes.
RECURSIVE Settled(_, _)
Settled(sc, w) ==
    IF WinnerEffect(sc, w) = w THEN w ELSE Settled(sc, WinnerEffect(sc, w))

displayTeam1(d) == IF isSwapped[d] THEN team2[d] ELSE team1[d]
displayTeam2(d) == IF isSwapped[d] THEN team1[d] ELSE team2[d]

\* The card on display side `side` ("left", "right") in row `position`.
CardPlayer(d, side, position) ==
    LET t == IF side = "left" THEN displayTeam1(d) ELSE displayTeam2(d)
    IN  IF position = "striker" THEN t.striker ELSE t.defender

\* handleGoal(player, position), followed by the winner effect.
handleGoal(d, player, position, cap) ==
    LET teamKey == IF player.id = team1[d].striker.id \/ player.id = team1[d].defender.id
                   THEN "team1" ELSE "team2"
        sc == [score[d] EXCEPT ![teamKey] = @ + 1]
    IN  /\ isGameActive[d]
        /\ Len(goalHistory[d]) < cap
        /\ score' = [score EXCEPT ![d] = sc]
        /\ goalHistory' = [goalHistory EXCEPT ![d] =
                Append(@, [player |-> player.id, position |-> position, teamKey |-> teamKey])]
        /\ winner' = [winner EXCEPT ![d] = Settled(sc, @)]
        /\ UNCHANGED <<storeVars, appVars, team1, team2, isSwapped, closeVars>>

Max0(n) == IF n < 0 THEN 0 ELSE n

\* The undo taking the goal off Team 1's score whichever team scored it.
UndoneScoreOfTeam1(log, sc) ==
    IF Len(log) = 0 THEN sc
    ELSE [sc EXCEPT !.team1 = Max0(@ - 1)]

\* The undo taking two entries off the log for the one goal it takes off the score.
UndoneLogOfTwo(log) ==
    IF Len(log) = 0 THEN log
    ELSE IF Len(log) = 1 THEN <<>>
    ELSE SubSeq(log, 1, Len(log) - 2)

\* handleUndoGoal's updater of goalHistory: prev, or prev.slice(0, -1).
UndoneLog(log) ==
    IF Len(log) = 0 THEN log ELSE SubSeq(log, 1, Len(log) - 1)

\* The score after the setScore the updater calls (none on an empty log).
UndoneScore(log, sc) ==
    IF Len(log) = 0 THEN sc
    ELSE [sc EXCEPT ![log[Len(log)].teamKey] = Max0(@ - 1)]

\* handleUndoGoal(), followed by the winner effect.
handleUndoGoal(d) ==
    /\ isGameActive[d]
    /\ score' = [score EXCEPT ![d] = UndoneScore(goalHistory[d], @)]
    /\ goalHistory' = [goalHistory EXCEPT ![d] = UndoneLog(@)]
    /\ winner' = [winner EXCEPT ![d] = Settled(UndoneScore(goalHistory[d], score[d]), @)]
    /\ UNCHANGED <<storeVars, appVars, team1, team2, isSwapped, closeVars>>

\* swapPositions exchanging the roles in both teams at once.
swapPositionsOfBoth(d, teamNum) ==
    /\ isGameActive[d]
    /\ team1' = [team1 EXCEPT ![d] = [striker |-> @.defender, defender |-> @.striker]]
    /\ team2' = [team2 EXCEPT ![d] = [striker |-> @.defender, defender |-> @.striker]]
    /\ UNCHANGED <<storeVars, appVars, score, goalHistory, isSwapped, winner, closeVars>>

\* swapPositions(teamNum)
swapPositions(d, teamNum) ==
    /\ isGameActive[d]
    /\ IF teamNum = 1
       THEN /\ team1' = [team1 EXCEPT ![d] = [striker |-> @.defender, defender |-> @.striker]]
            /\ UNCHANGED team2
       ELSE /\ team2' = [team2 EXCEPT ![d] = [striker |-> @.defender, defender |-> @.striker]]
            /\ UNCHANGED team1
    /\ UNCHANGED <<storeVars, appVars, score, goalHistory, isSwapped, winner, closeVars>>

\* The buttons wired to the teams without regard to the sides being swapped.
SwapButtonOfFixedTeam(d, side) ==
    swapPositions(d, IF side = "left" THEN 1 ELSE 2)

\* The "Positionen tauschen" button under display side `side`.
SwapButton(d, side) ==
    swapPositions(d, IF side = "left" THEN (IF isSwapped[d] THEN 2 ELSE 1)
                     ELSE (IF isSwapped[d] THEN 1 ELSE 2))

\* The "Seiten tauschen" button: setIsSwapped((s) => !s)
swapSides(d) ==
    /\ isGameActive[d]
    /\ isSwapped' = [isSwapped EXCEPT ![d] = ~@]
    /\ UNCHANGED <<storeVars, appVars, team1, team2, score, goalHistory, winner, closeVars>>

\* The session of an unmounted GameScreen.
Unmounted(d) ==
    /\ isGameActive' = [isGameActive EXCEPT ![d] = FALSE]
    /\ team1' = [team1 EXCEPT ![d] = NoTeam]
    /\ team2' = [team2 EXCEPT ![d] = NoTeam]
    /\ score' = [score EXCEPT ![d] = NoScore]
    /\ goalHistory' = [goalHistory EXCEPT ![d] = <<>>]
    /\ isSwapped' = [isSwapped EXCEPT ![d] = FALSE]
    /\ winner' = [winner EXCEPT ![d] = NoWinner]

\* handleNewGame handing the abandoned session to the ledger before it closes
\* the game screen.
handleNewGameCommits(d) ==
    /\ isGameActive[d]
    /\ Unmounted(d)
    /\ activeView' = [activeView EXCEPT ![d] = "new_game"]
    /\ tx' = IF \E t \in TxIds : tx[t].pc = "free"
             THEN LET t == CHOOSE x \in TxIds : tx[x].pc = "free"
                  IN  [tx EXCEPT ![t] =
                        [pc |-> "run", dev |-> d, winner |-> winner[d], team1 |-> team1[d],
                         team2 |-> team2[d], score |-> score[d],
                         goalHistory |-> goalHistory[d], duration |-> 0,
                         snaps |-> <<>>, attempts |-> 1]]
             ELSE tx
    /\ UNCHANGED <<playersDoc, matches, seasonHistoryCol, appStateDoc, players,
                   appState, slots, closeVars>>

\* handleNewGame ("Spiel abbrechen", "Neues Spiel"): the game screen is closed
\* and the selection screen, still mounted when the view did not change, shown.
handleNewGame(d) ==
    /\ isGameActive[d]
    /\ Unmounted(d)
    /\ activeView' = [activeView EXCEPT ![d] = "new_game"]
    /\ UNCHANGED <<storeVars, players, appState, slots, closeVars>>

\* ----------------------------------------------------------- navigation
EmptySlots == <<NoPlayer, NoPlayer, NoPlayer, NoPlayer>>

\* A NavBand's onClick: setActiveView(item.id). The bands lie under the game
\* screen while a game is active. A band renders its screen only while active,
\* so the selection screen loses its slots when another view is shown.
setActiveView(d, v) ==
    /\ ~isGameActive[d]
    /\ activeView[d] # v
    /\ activeView' = [activeView EXCEPT ![d] = v]
    /\ slots' = [slots EXCEPT ![d] = EmptySlots]
    /\ UNCHANGED <<storeVars, players, appState, isGameActive, gameVars, closeVars>>

\* ---------------------------------------------------- snapshot listeners
\* What a snapshot holds of a document: its fields, not its version.
Data(doc) == [doc EXCEPT !.ver = 0]

\* onSnapshot(collection "players"): setPlayers(data)
onSnapshotPlayers(d) ==
    /\ players[d] # [p \in Players |-> Data(playersDoc[p])]
    /\ players' = [players EXCEPT ![d] = [p \in Players |-> Data(playersDoc[p])]]
    /\ UNCHANGED <<storeVars, appState, activeView, isGameActive, slots, gameVars, closeVars>>

\* onSnapshot(appState/config): setAppState(d.data())
onSnapshotAppState(d) ==
    /\ appState[d] # appStateDoc
    /\ appState' = [appState EXCEPT ![d] = appStateDoc]
    /\ UNCHANGED <<storeVars, players, activeView, isGameActive, slots, gameVars, closeVars>>

\* ------------------------------------------------------- the match commit
FreeTx == {t \in TxIds : tx[t].pc = "free"}

\* confirmWin -> handleGameEnd(winner, teams, score, goalHistory, duration) up
\* to its runTransaction call: the session is handed over as it stands.
confirmWin(d, duration) ==
    /\ isGameActive[d]
    /\ FreeTx # {}
    /\ LET t == CHOOSE x \in FreeTx : \A y \in FreeTx : x <= y
       IN  tx' = [tx EXCEPT ![t] =
                [pc |-> "run", dev |-> d, winner |-> winner[d], team1 |-> team1[d],
                 team2 |-> team2[d], score |-> score[d], goalHistory |-> goalHistory[d],
                 duration |-> duration, snaps |-> <<>>, attempts |-> 1]]
    /\ UNCHANGED <<playersDoc, matches, seasonHistoryCol, appStateDoc, appVars,
                   gameVars, closeVars>>

\* The "Ergebnis bestaetigen" button, rendered only while a winner is declared.
ConfirmButton(d, duration) == winner[d] # NoWinner /\ confirmWin(d, duration)

\* pRefs: team1.striker, team1.defender, team2.striker, team2.defender
pRefs(r) == <<r.team1.striker.id, r.team1.defender.id, r.team2.striker.id, r.team2.defender.id>>

\* The shutout flag taken from Team 2's score whichever team won.
isShutoutOfTeam2(r) == r.score.team2 = 0

isShutout(r) == (IF r.winner = Team1 THEN r.score.team2 ELSE r.score.team1) = 0

\* avgWinner and avgLoser of the fresh reads, as sums (see computeScoreChange).
FreshSums(r, snaps) ==
    LET s1 == snaps[1].score + snaps[2].score
        s2 == snaps[3].score + snaps[4].score
    IN  IF r.winner = Team1 THEN [win |-> s1, lose |-> s2] ELSE [win |-> s2, lose |-> s1]

\* The deltas computed from the ratings the match session holds (the player
\* objects of the teams) instead of the fresh reads.
TxDeltaFromSession(r, snaps) ==
    LET s1 == r.team1.striker.score + r.team1.defender.score
        s2 == r.team2.striker.score + r.team2.defender.score
    IN  IF r.winner = Team1 THEN computeScoreChange(s1, s2, isShutout(r))
        ELSE computeScoreChange(s2, s1, isShutout(r))

\* { winDelta, loseDelta } of one attempt of the transaction.
TxDelta(r, snaps) ==
    computeScoreChange(FreshSums(r, snaps).win, FreshSums(r, snaps).lose, isShutout(r))

goalsByPlayer(r, pid) ==
    Cardinality({i \in 1 .. Len(r.goalHistory) : r.goalHistory[i].player = pid})

\* applyStats with the new rating floored at zero.
applyStatsFloored(doc, r, delta, pid, didWin, position) ==
    LET goals == Cardinality({i \in 1 .. Len(r.goalHistory) : r.goalHistory[i].player = pid})
        inc == IF didWin THEN delta.winDelta ELSE 0 - delta.loseDelta
        striker == position = "striker"
    IN  [doc EXCEPT
            !.totalGames = @ + 1,
            !.score = IF @ + inc < 0 THEN 0 ELSE @ + inc,
            !.totalPlaytime = @ + r.duration,
            !.gamesAsStriker = IF striker THEN @ + 1 ELSE @,
            !.goalsAsStriker = IF striker THEN @ + goals ELSE @,
            !.gamesAsDefender = IF striker THEN @ ELSE @ + 1,
            !.goalsAsDefender = IF striker THEN @ ELSE @ + goals,
            !.gamesWon = IF didWin THEN @ + 1 ELSE @,
            !.shutoutWins = IF didWin /\ (IF r.winner = Team1 THEN r.score.team2 ELSE r.score.team1) = 0
                            THEN @ + 1 ELSE @,
            !.gamesLost = IF didWin THEN @ ELSE @ + 1,
            !.ver = @ + 1]

\* applyStats with the loser's branch of wl left out: a lost game is not counted.
applyStatsLossUncounted(doc, r, delta, pid, didWin, position) ==
    LET goals == Cardinality({i \in 1 .. Len(r.goalHistory) : r.goalHistory[i].player = pid})
        inc == IF didWin THEN delta.winDelta ELSE 0 - delta.loseDelta
        striker == position = "striker"
    IN  [doc EXCEPT
            !.totalGames = @ + 1,
            !.score = @ + inc,
            !.totalPlaytime = @ + r.duration,
            !.gamesAsStriker = IF striker THEN @ + 1 ELSE @,
            !.goalsAsStriker = IF striker THEN @ + goals ELSE @,
            !.gamesAsDefender = IF striker THEN @ ELSE @ + 1,
            !.goalsAsDefender = IF striker THEN @ ELSE @ + goals,
            !.gamesWon = IF didWin THEN @ + 1 ELSE @,
            !.shutoutWins = IF didWin /\ (IF r.winner = Team1 THEN r.score.team2 ELSE r.score.team1) = 0
                            THEN @ + 1 ELSE @,
            !.ver = @ + 1]

\* applyStats(pSnap, didWin, position) applied to the document: every field is an
\* increment of the stored value.
applyStats(doc, r, delta, pid, didWin, position) ==
    LET goals == goalsByPlayer(r, pid)
        inc == IF didWin THEN delta.winDelta ELSE 0 - delta.loseDelta
        striker == position = "striker"
    IN  [doc EXCEPT
            !.totalGames = @ + 1,
            !.score = @ + inc,
            !.totalPlaytime = @ + r.duration,
            !.gamesAsStriker = IF striker THEN @ + 1 ELSE @,
            !.goalsAsStriker = IF striker THEN @ + goals ELSE @,
            !.gamesAsDefender = IF striker THEN @ ELSE @ + 1,
            !.goalsAsDefender = IF striker THEN @ ELSE @ + goals,
            !.gamesWon = IF didWin THEN @ + 1 ELSE @,
            !.shutoutWins = IF didWin /\ isShutout(r) THEN @ + 1 ELSE @,
            !.gamesLost = IF didWin THEN @ ELSE @ + 1,
            !.ver = @ + 1]

\* The update of the last participant left out.
UpdatedRefsButLast == 1 .. 3

\* The slots of pRefs the transaction updates: all four.
UpdatedRefs == 1 .. 4

\* The four tx.update calls ("Map roles"), applied to the collection.
TxPlayerWrites(docs, r, snaps) ==
    LET refs == pRefs(r)
        delta == TxDelta(r, snaps)
    IN  [p \in Players |->
            IF \E i \in UpdatedRefs : refs[i] = p
            THEN LET i == CHOOSE j \in UpdatedRefs : refs[j] = p
                 IN  applyStats(docs[p], r, delta, p,
                                r.winner = (IF i <= 2 THEN Team1 ELSE Team2),
                                IF i \in {1, 3} THEN "striker" ELSE "defender")
            ELSE docs[p]]

\* tx.set(matchRef, ...): the match record (names and timestamp left out).
MatchRecord(r) ==
    [duration |-> r.duration, score |-> r.score, winner |-> r.winner,
     teams |-> [team1 |-> [striker |-> r.team1.striker.id, defender |-> r.team1.defender.id],
                team2 |-> [striker |-> r.team2.striker.id, defender |-> r.team2.defender.id]],
     goals |-> [i \in 1 .. Len(r.goalHistory) |->
                    [playerId |-> r.goalHistory[i].player,
                     position |-> r.goalHistory[i].position,
                     teamKey |-> r.goalHistory[i].teamKey]]]

\* A commit that does not check its reads.
ReadsNeverChecked(t) == TRUE

\* The transaction's commit may go through: no document it read was written since.
ReadsStillCurrent(t) ==
    \A i \in 1 .. 4 : playersDoc[pRefs(tx[t])[i]].ver = tx[t].snaps[i].ver

\* After the await of runTransaction, on success and in the catch alike:
\* setIsGameActive(false); setActiveView("ranking").
GameClosed(d) ==
    /\ Unmounted(d)
    /\ activeView' = [activeView EXCEPT ![d] = "ranking"]
    /\ slots' = [slots EXCEPT ![d] = IF activeView[d] = "ranking" THEN @ ELSE EmptySlots]

\* snaps = await Promise.all(pRefs.map((r) => tx.get(r))): the four reads, taken
\* as one step. An attempt commits only if none of the four documents was written
\* between its read and the commit, so an attempt whose reads straddle another
\* write never commits, whatever it read.
TxGet(t) ==
    /\ tx[t].pc = "run"
    /\ tx[t].snaps = <<>>
    /\ tx' = [tx EXCEPT ![t].snaps = [i \in 1 .. 4 |-> playersDoc[pRefs(tx[t])[i]]]]
    /\ UNCHANGED <<playersDoc, matches, seasonHistoryCol, appStateDoc, appVars,
                   gameVars, closeVars>>

\* The commit of one attempt: all writes at once when the reads are current,
\* otherwise the update function runs again, MaxAttempts times in all, and then
\* runTransaction rejects.
TxCommit(t) ==
    /\ tx[t].pc = "run"
    /\ Len(tx[t].snaps) = 4
    /\ IF ReadsStillCurrent(t)
       THEN /\ playersDoc' = TxPlayerWrites(playersDoc, tx[t], tx[t].snaps)
            /\ matches' = Append(matches, MatchRecord(tx[t]))
            /\ tx' = [tx EXCEPT ![t].pc = "done"]
            /\ GameClosed(tx[t].dev)
       ELSE IF tx[t].attempts < MaxAttempts
       THEN /\ tx' = [tx EXCEPT ![t].snaps = <<>>, ![t].attempts = @ + 1]
            /\ UNCHANGED <<playersDoc, matches, activeView, isGameActive, slots, gameVars>>
       ELSE /\ tx' = [tx EXCEPT ![t].pc = "failed"]
            /\ GameClosed(tx[t].dev)
            /\ UNCHANGED <<playersDoc, matches>>
    /\ UNCHANGED <<seasonHistoryCol, appStateDoc, players, appState, closeVars>>

\* The store cannot be reached: runTransaction rejects, the catch logs the error.
TxFail(t) ==
    /\ tx[t].pc = "run"
    /\ tx' = [tx EXCEPT ![t].pc = "failed"]
    /\ GameClosed(tx[t].dev)
    /\ UNCHANGED <<playersDoc, matches, seasonHistoryCol, appStateDoc, players,
                   appState, closeVars>>

\* ------------------------------------------------------- season closure
ClosureRunning(d) == closePc[d] \in {"history", "title", "reset", "counter"}

\* The pick taking the last of the players that share the highest score.
TopPlayerLastOfTies(snap) ==
    CHOOSE w \in Players :
        /\ \A p \in Players : snap[p].score <= snap[w].score
        /\ \A p \in Players : snap[p].score = snap[w].score => p <= w

\* [...players].sort((a, b) => b.score - a.score) over the snapshot `snap`, whose
\* array lists the documents in id order: Array.prototype.sort is stable, so the
\* result is that of inserting the players one by one, each behind every player
\* already placed whose score is not lower.
RECURSIVE sortedPlayers(_, _)
sortedPlayers(snap, n) ==
    IF n = 0 THEN <<>>
    ELSE LET seq == sortedPlayers(snap, n - 1)
             k == Cardinality({i \in 1 .. Len(seq) : snap[seq[i]].score >= snap[n].score})
         IN  SubSeq(seq, 1, k) \o <<n>> \o SubSeq(seq, k + 1, Len(seq))

\* winner = sortedPlayers[0]
TopPlayer(snap) == sortedPlayers(snap, Cardinality(Players))[1]

\* handleCloseSeason up to its first await: winner and appState.currentSeason
\* are taken from the device's snapshots. The button is on the ranking screen.
\* A device is followed through one run at a time, and no run starts once
\* MaxSeasons season records exist.
handleCloseSeason(d) ==
    /\ ~isGameActive[d]
    /\ activeView[d] = "ranking"
    /\ ~ClosureRunning(d)
    /\ Len(seasonHistoryCol) < MaxSeasons
    /\ LET w == TopPlayer(players[d])
       IN  closeWinner' = [closeWinner EXCEPT ![d] =
                [id |-> w, seasonsWon |-> players[d][w].seasonsWon]]
    /\ closeSeasonNo' = [closeSeasonNo EXCEPT ![d] = appState[d].currentSeason]
    /\ closePc' = [closePc EXCEPT ![d] = "history"]
    /\ UNCHANGED <<storeVars, appVars, gameVars>>

\* The closure without its first write: no season record is added.
CloseAddHistorySkipped(d) ==
    /\ closePc[d] = "history"
    /\ closePc' = [closePc EXCEPT ![d] = "title"]
    /\ UNCHANGED <<storeVars, appVars, gameVars, closeWinner, closeSeasonNo>>

\* await addDoc(collection "seasonHistory", {seasonNumber, winnerId, ...})
CloseAddHistory(d) ==
    /\ closePc[d] = "history"
    /\ seasonHistoryCol' = Append(seasonHistoryCol,
            [seasonNumber |-> closeSeasonNo[d], winnerId |-> closeWinner[d].id])
    /\ closePc' = [closePc EXCEPT ![d] = "title"]
    /\ UNCHANGED <<playersDoc, matches, appStateDoc, tx, appVars, gameVars,
                   closeWinner, closeSeasonNo>>

\* The title counter written for the winner: (winner.seasonsWon || 0) + 1
NewTitleCount(d) == closeWinner[d].seasonsWon + 1

\* await updateDoc(players/winner.id, {seasonsWon: (winner.seasonsWon || 0) + 1})
CloseTitle(d) ==
    /\ closePc[d] = "title"
    /\ playersDoc' = [playersDoc EXCEPT ![closeWinner[d].id] =
            [@ EXCEPT !.seasonsWon = NewTitleCount(d), !.ver = @ + 1]]
    /\ players' = [players EXCEPT ![d][closeWinner[d].id].seasonsWon = NewTitleCount(d)]
    /\ closePc' = [closePc EXCEPT ![d] = "reset"]
    /\ UNCHANGED <<matches, seasonHistoryCol, appStateDoc, tx, appState, activeView,
                   isGameActive, slots, gameVars, closeWinner, closeSeasonNo>>

\* The reset writing a new player's document over each player.
CloseResetOfAllFields(d) ==
    /\ closePc[d] = "reset"
    /\ playersDoc' = [p \in Players |->
            [NewPlayerDoc EXCEPT !.seasonsWon = playersDoc[p].seasonsWon,
                                 !.ver = playersDoc[p].ver + 1]]
    /\ players' = [players EXCEPT ![d] =
            [p \in Players |-> [NewPlayerDoc EXCEPT !.seasonsWon = playersDoc[p].seasonsWon]]]
    /\ closePc' = [closePc EXCEPT ![d] = "counter"]
    /\ UNCHANGED <<matches, seasonHistoryCol, appStateDoc, tx, appState, activeView,
                   isGameActive, slots, gameVars, closeWinner, closeSeasonNo>>

\* The reset as a write that a running transaction does not notice: the documents
\* keep their versions.
CloseResetUnnoticed(d) ==
    /\ closePc[d] = "reset"
    /\ playersDoc' = [p \in Players |-> [playersDoc[p] EXCEPT !.score = Baseline]]
    /\ players' = [players EXCEPT ![d] =
            [p \in Players |-> [@[p] EXCEPT !.score = Baseline]]]
    /\ closePc' = [closePc EXCEPT ![d] = "counter"]
    /\ UNCHANGED <<matches, seasonHistoryCol, appStateDoc, tx, appState, activeView,
                   isGameActive, slots, gameVars, closeWinner, closeSeasonNo>>

\* getDocs(players); batch.update(pd.ref, {score: 1500}) for each; batch.commit()
CloseReset(d) ==
    /\ closePc[d] = "reset"
    /\ playersDoc' = [p \in Players |->
            [playersDoc[p] EXCEPT !.score = Baseline, !.ver = @ + 1]]
    /\ players' = [players EXCEPT ![d] =
            [p \in Players |-> [@[p] EXCEPT !.score = Baseline]]]
    /\ closePc' = [closePc EXCEPT ![d] = "counter"]
    /\ UNCHANGED <<matches, seasonHistoryCol, appStateDoc, tx, appState, activeView,
                   isGameActive, slots, gameVars, closeWinner, closeSeasonNo>>

\* await updateDoc(appState/config, {currentSeason: (appState.currentSeason || 1) + 1})
CloseCounter(d) ==
    /\ closePc[d] = "counter"
    /\ appStateDoc' = [currentSeason |-> closeSeasonNo[d] + 1]
    /\ appState' = [appState EXCEPT ![d] = [currentSeason |-> closeSeasonNo[d] + 1]]
    /\ closePc' = [closePc EXCEPT ![d] = "done"]
    /\ UNCHANGED <<playersDoc, matches, seasonHistoryCol, tx, players, activeView,
                   isGameActive, slots, gameVars, closeWinner, closeSeasonNo>>

\* One of the awaited writes rejects: the catch logs the error and the function
\* returns, with the writes before it in place.
CloseFail(d) ==
    /\ ClosureRunning(d)
    /\ closePc' = [closePc EXCEPT ![d] = "failed"]
    /\ UNCHANGED <<storeVars, appVars, gameVars, closeWinner, closeSeasonNo>>

\* ------------------------------------------------ the match-session machine
\* One device selects the players in roster order, starts a match and drives it
\* from the two striker cards, with undo, side swaps and abandoning.
NextPick(d) == Cardinality({i \in 1 .. 4 : slots[d][i] # NoPlayer}) + 1

SelectNext(d) == handleSelectPlayer(d, NextPick(d))
StrikerGoal(d, side) == handleGoal(d, CardPlayer(d, side, "striker"), "striker", MaxGoals)

NextGame ==
    \/ SelectNext("d1")
    \/ handleGameStart("d1")
    \/ \E side \in {"left", "right"} : StrikerGoal("d1", side)
    \/ handleUndoGoal("d1")
    \/ swapSides("d1")
    \/ handleNewGame("d1")

SpecGame == Init /\ [][NextGame]_vars


\* --------------------------------------------------- the ledger, two devices
\* Each device selects the players in roster order and plays its match by mouse
\* from one striker card (the left one on d1, the right one on d2) until the
\* winner overlay covers the cards, then confirms; the transactions of the two
\* devices, and of a repeated confirmation on one device, run concurrently.
HomeCard == [d \in Devices |-> IF d = "d1" THEN "left" ELSE "right"]

HomeStrikerGoal(d) ==
    /\ winner[d] = NoWinner
    /\ handleGoal(d, CardPlayer(d, HomeCard[d], "striker"), "striker", MaxGoals)

\* Matches are set up only while the run has a transaction left for them.
MatchLeft == FreeTx # {}

NextLedger ==
    \/ \E d \in Devices : MatchLeft /\ SelectNext(d)
    \/ \E d \in Devices : MatchLeft /\ handleGameStart(d)
    \/ \E d \in Devices : HomeStrikerGoal(d)
    \/ \E d \in Devices, duration \in Durations : ConfirmButton(d, duration)
    \/ \E t \in TxIds : TxGet(t)
    \/ \E t \in TxIds : TxCommit(t)
    \/ \E t \in TxIds : TxFail(t)
    \/ \E d \in Devices : MatchLeft /\ setActiveView(d, "new_game")

SpecLedger == Init /\ [][NextLedger]_vars

\* --------------------------------------- statistics of one match, one device
\* One device plays one match by mouse from the two cards of the left side,
\* swapping that side's positions at will until the winner overlay covers the
\* screen, and confirms (once, or again while the first commit is under way).
NoMatchYet == \A t \in TxIds : tx[t].pc = "free"

LeftGoal(d, position) ==
    /\ winner[d] = NoWinner
    /\ handleGoal(d, CardPlayer(d, "left", position), position, MaxGoals)

LeftSwap(d) == winner[d] = NoWinner /\ SwapButton(d, "left")

NextStats ==
    \/ NoMatchYet /\ SelectNext("d1")
    \/ NoMatchYet /\ handleGameStart("d1")
    \/ \E position \in {"striker", "defender"} : LeftGoal("d1", position)
    \/ LeftSwap("d1")
    \/ \E duration \in Durations : ConfirmButton("d1", duration)
    \/ \E t \in TxIds : TxGet(t)
    \/ \E t \in TxIds : TxCommit(t)

SpecStats == Init /\ [][NextStats]_vars

\* ------------------------------------------- season closure, two devices
\* Device d2 plays one match from its right striker card while device d1 closes
\* seasons from its ranking screen; d1's listeners fire at any time.
NextSeason ==
    \/ NoMatchYet /\ SelectNext("d2")
    \/ NoMatchYet /\ handleGameStart("d2")
    \/ HomeStrikerGoal("d2")
    \/ \E duration \in Durations : ConfirmButton("d2", duration)
    \/ \E t \in TxIds : TxGet(t)
    \/ \E t \in TxIds : TxCommit(t)
    \/ setActiveView("d1", "ranking")
    \/ handleCloseSeason("d1")
    \/ CloseAddHistory("d1")
    \/ CloseTitle("d1")
    \/ CloseReset("d1")
    \/ CloseCounter("d1")
    \/ CloseFail("d1")
    \/ onSnapshotPlayers("d1")

SpecSeason == Init /\ [][NextSeason]_vars

\* ------------------------------------- commits and closures on one device
\* One device plays matches from its left striker card, confirms them (again
\* while a commit is under way, too), sees commits fail, and closes one season
\* from the ranking screen a finished commit leaves it on.
NoSeasonYet == seasonHistoryCol = <<>>

NextCounters ==
    \/ MatchLeft /\ SelectNext("d1")
    \/ MatchLeft /\ handleGameStart("d1")
    \/ MatchLeft /\ setActiveView("d1", "new_game")
    \/ HomeStrikerGoal("d1")
    \/ \E duration \in Durations : ConfirmButton("d1", duration)
    \/ \E t \in TxIds : TxGet(t)
    \/ \E t \in TxIds : TxCommit(t)
    \/ \E t \in TxIds : TxFail(t)
    \/ NoSeasonYet /\ handleCloseSeason("d1")
    \/ CloseAddHistory("d1")
    \/ CloseTitle("d1")
    \/ CloseReset("d1")
    \/ CloseCounter("d1")
    \/ CloseFail("d1")

SpecCounters == Init /\ [][NextCounters]_vars

\* ------------------------------------------- a match late in a long season
\* The league as it stands after many matches: each player's rating is the
\* baseline or a low one, and the device's snapshot shows the stored ratings.
\* One device plays one match by mouse from the two striker cards and confirms
\* it once.
Ratings == {LowRating, Baseline}

InitRated ==
    /\ playersDoc \in [Players -> {[NewPlayerDoc EXCEPT !.score = x] : x \in Ratings}]
    /\ players = [d \in Devices |-> playersDoc]
    /\ matches = <<>>
    /\ seasonHistoryCol = <<>>
    /\ appStateDoc = [currentSeason |-> FirstSeason]
    /\ tx = [t \in TxIds |-> IdleTx]
    /\ appState = [d \in Devices |-> [currentSeason |-> FirstSeason]]
    /\ activeView = [d \in Devices |-> "new_game"]
    /\ isGameActive = [d \in Devices |-> FALSE]
    /\ slots = [d \in Devices |-> EmptySlots]
    /\ team1 = [d \in Devices |-> NoTeam]
    /\ team2 = [d \in Devices |-> NoTeam]
    /\ score = [d \in Devices |-> NoScore]
    /\ goalHistory = [d \in Devices |-> <<>>]
    /\ isSwapped = [d \in Devices |-> FALSE]
    /\ winner = [d \in Devices |-> NoWinner]
    /\ closePc = [d \in Devices |-> "idle"]
    /\ closeWinner = [d \in Devices |-> NoCloseWinner]
    /\ closeSeasonNo = [d \in Devices |-> 0]

MouseStrikerGoal(d, side) == winner[d] = NoWinner /\ StrikerGoal(d, side)

NextRated ==
    \/ NoMatchYet /\ SelectNext("d1")
    \/ NoMatchYet /\ handleGameStart("d1")
    \/ \E side \in {"left", "right"} : MouseStrikerGoal("d1", side)
    \/ \E duration \in Durations : NoMatchYet /\ ConfirmButton("d1", duration)
    \/ \E t \in TxIds : TxGet(t)
    \/ \E t \in TxIds : TxCommit(t)

SpecRated == InitRated /\ [][NextRated]_vars

\* ------------------------------------------------- the rating delta alone
\* computeScoreChange over a range of inputs: the stored ratings are drawn from
\* Baseline -/+ Spread (player 1 any rating of the range, player 2 the same or
\* one more, so that the team's average takes every half step; players 3 and 4
\* both at Baseline or both Gap below it), and device d1 has just played a
\* match between them to its end, 6:0 or 6:1 either way. It confirms, and the
\* transaction reads the ratings and commits.
EndScores ==
    {[team1 |-> 6, team2 |-> 0], [team1 |-> 6, team2 |-> 1],
     [team1 |-> 0, team2 |-> 6], [team1 |-> 1, team2 |-> 6]}

\* The goal log of a match that ended sc: the loser's goal first, each goal by
\* the team's striker.
EndLog(sc) ==
    LET lose == IF sc.team1 < sc.team2 THEN "team1" ELSE "team2"
        win == IF sc.team1 < sc.team2 THEN "team2" ELSE "team1"
        entry(k) == [player |-> IF k = "team1" THEN 2 ELSE 3, position |-> "striker", teamKey |-> k]
    IN  [i \in 1 .. sc.team1 + sc.team2 |-> IF i <= sc[lose] THEN entry(lose) ELSE entry(win)]

InitDelta ==
    /\ \E a \in (Baseline - Spread) .. (Baseline + Spread), b \in {0, 1}, c \in {0, Gap} :
          playersDoc = [p \in Players |->
              [NewPlayerDoc EXCEPT !.score =
                  IF p = 1 THEN a ELSE IF p = 2 THEN a + b ELSE Baseline - c]]
    /\ players = [d \in Devices |-> playersDoc]
    /\ matches = <<>>
    /\ seasonHistoryCol = <<>>
    /\ appStateDoc = [currentSeason |-> FirstSeason]
    /\ tx = [t \in TxIds |-> IdleTx]
    /\ appState = [d \in Devices |-> [currentSeason |-> FirstSeason]]
    /\ activeView = [d \in Devices |-> "new_game"]
    /\ isGameActive = [d \in Devices |-> d = "d1"]
    /\ slots = [d \in Devices |->
            IF d = "d1" THEN [i \in 1 .. 4 |-> [id |-> i, score |-> playersDoc[i].score]]
            ELSE EmptySlots]
    /\ team1 = [d \in Devices |->
            IF d = "d1" THEN [striker |-> slots[d][2], defender |-> slots[d][1]] ELSE NoTeam]
    /\ team2 = [d \in Devices |->
            IF d = "d1" THEN [striker |-> slots[d][3], defender |-> slots[d][4]] ELSE NoTeam]
    /\ \E sc \in EndScores :
          /\ score = [d \in Devices |-> IF d = "d1" THEN sc ELSE NoScore]
          /\ goalHistory = [d \in Devices |-> IF d = "d1" THEN EndLog(sc) ELSE <<>>]
          /\ winner = [d \in Devices |-> IF d = "d1" THEN Settled(sc, NoWinner) ELSE NoWinner]
    /\ isSwapped = [d \in Devices |-> FALSE]
    /\ closePc = [d \in Devices |-> "idle"]
    /\ closeWinner = [d \in Devices |-> NoCloseWinner]
    /\ closeSeasonNo = [d \in Devices |-> 0]

NextDelta ==
    \/ \E duration \in Durations : NoMatchYet /\ ConfirmButton("d1", duration)
    \/ \E t \in TxIds : TxGet(t)
    \/ \E t \in TxIds : TxCommit(t)

SpecDelta == InitDelta /\ [][NextDelta]_vars

\* ------------------------------------------ free selection, then one match
\* One device clicks any roster cards in any order (selecting and deselecting),
\* starts a match, plays it from its left striker card and confirms it once.
NextSelect ==
    \/ \E p \in Players : NoMatchYet /\ handleSelectPlayer("d1", p)
    \/ NoMatchYet /\ handleGameStart("d1")
    \/ HomeStrikerGoal("d1")
    \/ \E duration \in Durations : NoMatchYet /\ ConfirmButton("d1", duration)
    \/ \E t \in TxIds : TxGet(t)
    \/ \E t \in TxIds : TxCommit(t)

SpecSelect == Init /\ [][NextSelect]_vars

\* ------------------------------------------------- abandoning and restarting
\* One device starts matches, plays them from its left striker card, abandons
\* them at any score (before or after confirming a declared win) and confirms.
NextAbandon ==
    \/ MatchLeft /\ SelectNext("d1")
    \/ MatchLeft /\ handleGameStart("d1")
    \/ MatchLeft /\ setActiveView("d1", "new_game")
    \/ HomeStrikerGoal("d1")
    \/ handleNewGame("d1")
    \/ \E duration \in Durations : ConfirmButton("d1", duration)
    \/ \E t \in TxIds : TxGet(t)
    \/ \E t \in TxIds : TxCommit(t)
    \/ \E t \in TxIds : TxFail(t)

SpecAbandon == Init /\ [][NextAbandon]_vars

\* ------------------------------------------------ positions within a match
\* One device starts a match and, in any order, records goals from any of the
\* four cards, swaps the positions of either team and swaps the sides.
NextSwap ==
    \/ SelectNext("d1")
    \/ handleGameStart("d1")
    \/ \E side \in {"left", "right"}, position \in {"striker", "defender"} :
          handleGoal("d1", CardPlayer("d1", side, position), position, MaxSwapGoals)
    \/ \E side \in {"left", "right"} : SwapButton("d1", side)
    \/ swapSides("d1")

SpecSwap == Init /\ [][NextSwap]_vars

\* ------------------------------------------------ one closure over rated players
\* The players start from mixed ratings; the second device plays one match and
\* the first device, whose listener may or may not have delivered the result,
\* closes the season once.
NextRank ==
    \/ NoMatchYet /\ SelectNext("d2")
    \/ NoMatchYet /\ handleGameStart("d2")
    \/ HomeStrikerGoal("d2")
    \/ \E duration \in Durations : NoMatchYet /\ ConfirmButton("d2", duration)
    \/ \E t \in TxIds : TxGet(t)
    \/ \E t \in TxIds : TxCommit(t)
    \/ onSnapshotPlayers("d1")
    \/ setActiveView("d1", "ranking")
    \/ NoSeasonYet /\ handleCloseSeason("d1")
    \/ CloseAddHistory("d1")
    \/ CloseTitle("d1")
    \/ CloseReset("d1")
    \/ CloseCounter("d1")
    \/ CloseFail("d1")

SpecRank == InitRated /\ [][NextRank]_vars

\* ------------------------------------------------ one session, confirmed at will
\* One device plays a single match session; the confirm button can be pressed as
\* long as the overlay is on screen, that is until an awaited transaction ends.
NextConfirm ==
    \/ NoMatchYet /\ SelectNext("d1")
    \/ NoMatchYet /\ handleGameStart("d1")
    \/ \E side \in {"left", "right"} : MouseStrikerGoal("d1", side)
    \/ \E duration \in Durations : ConfirmButton("d1", duration)
    \/ \E t \in TxIds : TxGet(t)
    \/ \E t \in TxIds : TxCommit(t)
    \/ \E t \in TxIds : TxFail(t)

SpecConfirm == Init /\ [][NextConfirm]_vars

\* ------------------------------------------------ closures of two devices
\* Both devices close seasons, one after the other or overlapping, each from its
\* own snapshots, which the listeners bring up to date sooner or later. No write
\* fails.
NextClosures ==
    \/ \E d \in Devices : setActiveView(d, "ranking")
    \/ \E d \in Devices : handleCloseSeason(d)
    \/ \E d \in Devices : CloseAddHistory(d)
    \/ \E d \in Devices : CloseTitle(d)
    \/ \E d \in Devices : CloseReset(d)
    \/ \E d \in Devices : CloseCounter(d)
    \/ \E d \in Devices : onSnapshotPlayers(d)
    \/ \E d \in Devices : onSnapshotAppState(d)

SpecClosures == Init /\ [][NextClosures]_vars

\* ------------------------------------------------ confirmWin called directly
\* The confirmWin callback as the operation it is, called in any state of the
\* session (the screen itself offers it only on the winner overlay).
NextDirect ==
    \/ NoMatchYet /\ SelectNext("d1")
    \/ NoMatchYet /\ handleGameStart("d1")
    \/ HomeStrikerGoal("d1")
    \/ handleUndoGoal("d1")
    \/ \E duration \in Durations : confirmWin("d1", duration)
    \/ \E t \in TxIds : TxGet(t)
    \/ \E t \in TxIds : TxCommit(t)

SpecDirect == Init /\ [][NextDirect]_vars

\* --------------------------------------------- properties: the match session
TeamGoals(log, teamKey) == Cardinality({i \in 1 .. Len(log) : log[i].teamKey = teamKey})

\* The goal log has passed through 5:5.
HasBeenDeuce(d) ==
    \E k \in 0 .. Len(goalHistory[d]) :
        /\ TeamGoals(SubSeq(goalHistory[d], 1, k), "team1") = DeuceScore
        /\ TeamGoals(SubSeq(goalHistory[d], 1, k), "team2") = DeuceScore

ThresholdMet(sc) ==
    \/ sc.team1 >= winningScoreFor(sc.team1, sc.team2)
    \/ sc.team2 >= winningScoreFor(sc.team1, sc.team2)

\* C7: once the score has been 5:5 no winner is declared before one team has 7
\* goals; before any 5:5 a declared winner means a team has reached 6.
C7_DeuceExtendsMatch ==
    \A d \in Devices :
        winner[d] # NoWinner =>
            IF HasBeenDeuce(d)
            THEN score[d].team1 >= DeuceTarget \/ score[d].team2 >= DeuceTarget
            ELSE score[d].team1 >= NormalTarget \/ score[d].team2 >= NormalTarget

\* C8: a declared winner is the team with the strictly higher score, so equal
\* scores never have a declared winner.
C8_WinnerHasHigherScore ==
    \A d \in Devices :
        /\ winner[d] = Team1 => score[d].team1 > score[d].team2
        /\ winner[d] = Team2 => score[d].team2 > score[d].team1

\* C9: once a goal or an undo has settled, a winner is declared exactly when a
\* team's score is at or above the threshold recomputed from the current score.
C9_WinnerIffThresholdMet ==
    \A d \in Devices : (winner[d] # NoWinner) <=> ThresholdMet(score[d])

\* C9 witness: 6:3 with Team 1 declared, and the last goal Team 1's, so that an
\* undo leads to 5:3.
C9_Witness ==
    /\ score["d1"] = [team1 |-> 6, team2 |-> 3]
    /\ winner["d1"] = Team1
    /\ goalHistory["d1"][Len(goalHistory["d1"])].teamKey = "team1"


\* ------------------------------------------------ properties: the match commit
DoneTx == {t \in TxIds : tx[t].pc = "done"}
Participates(r, p) == \E i \in 1 .. 4 : pRefs(r)[i] = p
InRecord(m, p) ==
    p \in {m.teams.team1.striker, m.teams.team1.defender,
           m.teams.team2.striker, m.teams.team2.defender}
RecordsWith(p) == {k \in 1 .. Len(matches) : InRecord(matches[k], p)}

\* C1: the store never shows part of a commit: there is one match record per
\* committed transaction and none for a running or failed one, and every
\* player's counters show exactly the matches recorded with that player.
C1_CommitAllOrNothing ==
    /\ Len(matches) = Cardinality(DoneTx)
    /\ \A p \in Players :
        /\ playersDoc[p].totalGames = Cardinality(RecordsWith(p))
        /\ playersDoc[p].gamesWon + playersDoc[p].gamesLost = Cardinality(RecordsWith(p))
        /\ playersDoc[p].gamesAsStriker + playersDoc[p].gamesAsDefender
              = Cardinality(RecordsWith(p))
        /\ playersDoc[p].totalGames = Cardinality({t \in DoneTx : Participates(tx[t], p)})

\* C1 witness: one transaction has committed and another has failed.
C1_Witness ==
    \E t, u \in TxIds : tx[t].pc = "done" /\ tx[u].pc = "failed"

\* The rating change of slot i of pRefs for deltas `delta`.
Inc(r, delta, i) ==
    IF r.winner = (IF i <= 2 THEN Team1 ELSE Team2) THEN delta.winDelta ELSE 0 - delta.loseDelta

\* The deltas of match r computed from the ratings `docs` holds.
DeltaAt(docs, r) ==
    LET refs == pRefs(r)
        s1 == docs[refs[1]].score + docs[refs[2]].score
        s2 == docs[refs[3]].score + docs[refs[4]].score
    IN  IF r.winner = Team1 THEN computeScoreChange(s1, s2, isShutout(r))
        ELSE computeScoreChange(s2, s1, isShutout(r))

\* C2: the step that commits a match changes each participant's rating by the
\* delta of the ratings stored at that moment, not of those the session holds.
C2_DeltaFromCommitTimeRatings ==
    [][\A t \in TxIds :
          (tx[t].pc = "run" /\ tx'[t].pc = "done") =>
              \A i \in 1 .. 4 :
                  playersDoc'[pRefs(tx[t])[i]].score =
                      playersDoc[pRefs(tx[t])[i]].score
                        + Inc(tx[t], DeltaAt(playersDoc, tx[t]), i)]_vars

SessionRating(r, i) ==
    <<r.team1.striker, r.team1.defender, r.team2.striker, r.team2.defender>>[i].score

\* C2 witness: a committed match one of whose participants had, at the commit,
\* another rating than the one the session held, and other deltas for it.
C2_Witness ==
    \E t \in DoneTx :
        /\ \E i \in 1 .. 4 : SessionRating(tx[t], i) # tx[t].snaps[i].score
        /\ TxDeltaFromSession(tx[t], tx[t].snaps) # TxDelta(tx[t], tx[t].snaps)

\* The ratings and game counts after the first k match records, each applied in
\* turn to the ratings the one before left.
RECURSIVE Replay(_)
Replay(k) ==
    IF k = 0 THEN [p \in Players |-> [score |-> Baseline, totalGames |-> 0]]
    ELSE LET prev == Replay(k - 1)
             m == matches[k]
             r == [winner |-> m.winner, score |-> m.score,
                   team1 |-> [striker |-> [id |-> m.teams.team1.striker],
                              defender |-> [id |-> m.teams.team1.defender]],
                   team2 |-> [striker |-> [id |-> m.teams.team2.striker],
                              defender |-> [id |-> m.teams.team2.defender]]]
             delta == DeltaAt(prev, r)
         IN  [p \in Players |->
                IF InRecord(m, p)
                THEN LET i == CHOOSE j \in 1 .. 4 : pRefs(r)[j] = p
                     IN  [score |-> prev[p].score + Inc(r, delta, i),
                          totalGames |-> prev[p].totalGames + 1]
                ELSE prev[p]]

\* C3: no update is lost between concurrent commits: every rating is the
\* initial rating plus the delta of each recorded match, each delta computed
\* from the ratings the matches before it left, and totalGames counts them all.
C3_NoLostUpdate ==
    \A p \in Players :
        /\ playersDoc[p].score = Replay(Len(matches))[p].score
        /\ playersDoc[p].totalGames = Replay(Len(matches))[p].totalGames

\* C3 witness: two committed transactions share a player, and the later one had
\* to run again after a conflict.
C3_Witness ==
    \E t, u \in DoneTx :
        /\ t # u
        /\ tx[u].attempts > 1
        /\ \E p \in Players :
            /\ Participates(tx[t], p) /\ Participates(tx[u], p)
            /\ playersDoc[p].totalGames = 2


\* C4: each player's goal counters equal the goals the match records log for
\* that player in that position.
GoalsLogged(p, position) ==
    Cardinality({ki \in (1 .. Len(matches)) \X (1 .. MaxGoals + 1) :
        /\ ki[2] <= Len(matches[ki[1]].goals)
        /\ matches[ki[1]].goals[ki[2]].playerId = p
        /\ matches[ki[1]].goals[ki[2]].position = position})

C4_GoalsByLoggedPosition ==
    \A p \in Players :
        /\ playersDoc[p].goalsAsStriker = GoalsLogged(p, "striker")
        /\ playersDoc[p].goalsAsDefender = GoalsLogged(p, "defender")

\* C10: no match is committed from a session without a declared winner: no
\* match record lacks a winner.
C10_NoCommitWithoutWinner ==
    \A k \in 1 .. Len(matches) : matches[k].winner # NoWinner

\* ------------------------------------------------ properties: season closure
TotalTitles == LET RECURSIVE Sum(_)
                   Sum(n) == IF n = 0 THEN 0 ELSE playersDoc[n].seasonsWon + Sum(n - 1)
               IN  Sum(Cardinality(Players))

\* C5: a closure's effects come together or not at all: whenever no closure is
\* under way, the season counter has advanced once per season record and one
\* title has been awarded per season record.
C5_ClosureAllOrNothing ==
    (\A d \in Devices : ~ClosureRunning(d)) =>
        /\ appStateDoc.currentSeason - FirstSeason = Len(seasonHistoryCol)
        /\ TotalTitles = Len(seasonHistoryCol)

\* C6: a closure picks the player with the highest stored rating, appends one
\* season record with the stored season number and that winner, raises that
\* player's title counter (and no other) by one, and when it completes every
\* rating is 1500 and the season counter is one higher than before.
C6_ClosureEffects ==
    [][\A d \in Devices :
        /\ (~ClosureRunning(d) /\ closePc'[d] = "history") =>
              \A p \in Players :
                  playersDoc[p].score <= playersDoc[closeWinner'[d].id].score
        /\ (closePc[d] = "history" /\ closePc'[d] = "title") =>
              seasonHistoryCol' = Append(seasonHistoryCol,
                  [seasonNumber |-> appStateDoc.currentSeason,
                   winnerId |-> closeWinner[d].id])
        /\ (closePc[d] = "title" /\ closePc'[d] = "reset") =>
              \A p \in Players :
                  playersDoc'[p].seasonsWon =
                      playersDoc[p].seasonsWon + (IF p = closeWinner[d].id THEN 1 ELSE 0)
        /\ (closePc[d] = "counter" /\ closePc'[d] = "done") =>
              /\ \A p \in Players : playersDoc'[p].score = Baseline
              /\ appStateDoc'.currentSeason = appStateDoc.currentSeason + 1
      ]_vars


\* ------------------------------------------- properties: failure of a commit
\* C11: when the transaction of a commit fails, the match session it came from
\* is kept: the game screen stays open with its score, goal log and winner.
C11_FailureKeepsSession ==
    [][\A t \in TxIds :
          (tx[t].pc = "run" /\ tx'[t].pc = "failed" /\ isGameActive[tx[t].dev]) =>
              /\ isGameActive'[tx[t].dev]
              /\ score'[tx[t].dev] = score[tx[t].dev]
              /\ goalHistory'[tx[t].dev] = goalHistory[tx[t].dev]
              /\ winner'[tx[t].dev] = winner[tx[t].dev]
      ]_vars

\* C12: every player's totalGames is gamesWon + gamesLost, whatever commits
\* (successful, failed, concurrent) and season closures have taken place.
C12_TotalGamesIsWonPlusLost ==
    \A p \in Players :
        playersDoc[p].totalGames = playersDoc[p].gamesWon + playersDoc[p].gamesLost

\* C12 witness: a match has been committed (with a winner and a loser counted),
\* another commit has failed and a season closure has completed.
C12_Witness ==
    /\ \E p, q \in Players : playersDoc[p].gamesWon >= 1 /\ playersDoc[q].gamesLost >= 1
    /\ \E t \in TxIds : tx[t].pc = "failed"
    /\ closePc["d1"] = "done"

\* C13: a successful commit stores, for each player of the declared winner's
\* team, the rating read in the transaction plus winDelta, and for each player
\* of the other team the rating read minus loseDelta, below zero included.
C13_RatingIsReadPlusDelta ==
    [][\A t \in TxIds :
          (tx[t].pc = "run" /\ tx'[t].pc = "done") =>
              LET r == tx[t]
                  delta == computeScoreChange(FreshSums(r, r.snaps).win,
                                              FreshSums(r, r.snaps).lose, isShutout(r))
                  won(i) == r.winner = (IF i <= 2 THEN Team1 ELSE Team2)
              IN  \A i \in 1 .. 4 :
                      playersDoc'[pRefs(r)[i]].score =
                          IF won(i) THEN r.snaps[i].score + delta.winDelta
                          ELSE r.snaps[i].score - delta.loseDelta
      ]_vars

\* C13 witness: a committed match has left a player with a rating below zero.
C13_Witness ==
    /\ DoneTx # {}
    /\ \E p \in Players : playersDoc[p].score < 0

\* ------------------------------------------------ properties: the rating delta
\* The transactions that have read their ratings: their sums are the inputs of
\* computeScoreChange.
ReadTx == {t \in TxIds : Len(tx[t].snaps) = 4}
WinSum(t) == FreshSums(tx[t], tx[t].snaps).win
LoseSum(t) == FreshSums(tx[t], tx[t].snaps).lose

\* C14: for the inputs of every transaction and both values of the shutout flag,
\* loseDelta (the dynamic component) lies in 1 .. 20, winDelta with shutout is
\* at least winDelta without, and winDelta - loseDelta is 5 with shutout and 0
\* without; the delta a commit applies is the function's value for its inputs.
C14_DeltaBoundsAndBonus ==
    \A t \in ReadTx :
        LET with == computeScoreChange(WinSum(t), LoseSum(t), TRUE)
            without == computeScoreChange(WinSum(t), LoseSum(t), FALSE)
        IN  /\ with.loseDelta \in 1 .. 20
            /\ without.loseDelta \in 1 .. 20
            /\ with.loseDelta = without.loseDelta
            /\ with.winDelta >= without.winDelta
            /\ with.winDelta - with.loseDelta = 5
            /\ without.winDelta - without.loseDelta = 0
            /\ TxDelta(tx[t], tx[t].snaps) = (IF isShutout(tx[t]) THEN with ELSE without)

\* C14 witness: a committed shutout and inputs at which the dynamic component
\* is clamped from above.
C14_Witness ==
    \E t \in DoneTx :
        /\ isShutout(tx[t])
        /\ LoseSum(t) - WinSum(t) > 2 * Spread
        /\ TxDelta(tx[t], tx[t].snaps) = [winDelta |-> 25, loseDelta |-> 20]

\* The reference: round(10 + (avgLoser - avgWinner) / 40) is the integer n with
\* n - 1/2 <= 10 + diff2 / 80 < n + 1/2 (halves go up), which is then clamped
\* to 1 .. 20; the winner gets 5 more on a shutout.
RefRound(diff2) ==
    CHOOSE n \in -50 .. 50 : 80 * n - 40 <= 800 + diff2 /\ 800 + diff2 < 80 * n + 40

RefDelta(sumWinner, sumLoser, shutout) ==
    LET n == RefRound(sumLoser - sumWinner)
        dyn == IF n < 1 THEN 1 ELSE IF n > 20 THEN 20 ELSE n
    IN  [winDelta |-> IF shutout THEN dyn + 5 ELSE dyn, loseDelta |-> dyn]

\* C15: for the inputs of every transaction and both values of the shutout
\* flag, computeScoreChange equals the reference; (1500, 1500, no shutout) gives
\* (10, 10), (1700, 1300, no shutout) gives (1, 1) and (1700, 1300, shutout)
\* gives (6, 1).
C15_DeltaEqualsReference ==
    /\ \A t \in ReadTx : \A s \in BOOLEAN :
          computeScoreChange(WinSum(t), LoseSum(t), s) = RefDelta(WinSum(t), LoseSum(t), s)
    /\ \A t \in ReadTx :
          /\ (WinSum(t) = 3000 /\ LoseSum(t) = 3000 /\ ~isShutout(tx[t])) =>
                TxDelta(tx[t], tx[t].snaps) = [winDelta |-> 10, loseDelta |-> 10]
          /\ (WinSum(t) = 3400 /\ LoseSum(t) = 2600 /\ ~isShutout(tx[t])) =>
                TxDelta(tx[t], tx[t].snaps) = [winDelta |-> 1, loseDelta |-> 1]
          /\ (WinSum(t) = 3400 /\ LoseSum(t) = 2600 /\ isShutout(tx[t])) =>
                TxDelta(tx[t], tx[t].snaps) = [winDelta |-> 6, loseDelta |-> 1]

\* C15 witness: the shutout of a 1300 team by a 1700 team has been committed:
\* the winners stand at 1706 and the losers at 1299.
C15_Witness ==
    \E t \in DoneTx :
        /\ WinSum(t) = 3400 /\ LoseSum(t) = 2600 /\ isShutout(tx[t])
        /\ playersDoc[1].score = 1706 /\ playersDoc[2].score = 1706
        /\ playersDoc[3].score = 1299 /\ playersDoc[4].score = 1299

\* ------------------------------------------- properties: closure write order
\* The season record of the closure device d is running or has run.
HasOwnRecord(d) ==
    \E k \in 1 .. Len(seasonHistoryCol) :
        seasonHistoryCol[k] = [seasonNumber |-> closeSeasonNo[d], winnerId |-> closeWinner[d].id]

\* C16: a closure resets the ratings, and advances the season counter, only
\* once its season record exists; so every season the counter has passed has
\* its record, however far a failed closure got.
C16_RecordBeforeResetAndCounter ==
    /\ [][\A d \in Devices :
            /\ (closePc[d] = "reset" /\ closePc'[d] = "counter") => HasOwnRecord(d)
            /\ (closePc[d] = "counter" /\ closePc'[d] = "done") => HasOwnRecord(d)
         ]_vars
    /\ [](\A n \in FirstSeason .. appStateDoc.currentSeason - 1 :
            \E k \in 1 .. Len(seasonHistoryCol) : seasonHistoryCol[k].seasonNumber = n)
    /\ [][appStateDoc' # appStateDoc =>
            \E d \in Devices : closePc[d] = "counter" /\ closePc'[d] = "done"]_vars

\* C16 witness: a closure failed after it had reset the ratings of a played
\* season: its record exists, the ratings are at the baseline again and the
\* counter has not advanced.
C16_Witness ==
    /\ closePc["d1"] = "failed"
    /\ matches # <<>>
    /\ \A p \in Players : playersDoc[p].score = Baseline
    /\ appStateDoc.currentSeason = FirstSeason
    /\ HasOwnRecord("d1")

\* ------------------------------------------------- properties: participants
Distinct4(a, b, c, e) == Cardinality({a, b, c, e}) = 4

\* C17: no player occupies two selection slots; a running match has four
\* players, pairwise distinct; so has every match record.
C17_ParticipantsDistinct ==
    /\ \A d \in Devices : \A i, j \in 1 .. 4 :
          (i # j /\ slots[d][i] # NoPlayer /\ slots[d][j] # NoPlayer) =>
              slots[d][i].id # slots[d][j].id
    /\ \A d \in Devices : isGameActive[d] =>
          /\ Distinct4(team1[d].striker.id, team1[d].defender.id,
                       team2[d].striker.id, team2[d].defender.id)
          /\ \A t \in {team1[d], team2[d]} : t.striker # NoPlayer /\ t.defender # NoPlayer
    /\ \A k \in 1 .. Len(matches) :
          Distinct4(matches[k].teams.team1.striker, matches[k].teams.team1.defender,
                    matches[k].teams.team2.striker, matches[k].teams.team2.defender)

\* C17 witness: a match record whose line-up is not the roster order, as comes
\* about by deselecting and selecting again.
C17_Witness ==
    \E k \in 1 .. Len(matches) :
        /\ matches[k].teams.team1.defender = 4
        /\ matches[k].teams.team2.defender = 1

\* ---------------------------------------------- properties: session operations
\* C18: abandoning a match, with or without a declared winner, writes nothing
\* to the ledger (no player document changes, no match record is added, no
\* commit is begun), and every match started begins at 0:0 with an empty goal
\* log and no winner.
C18_AbandonWritesNothing ==
    [][\A d \in Devices :
          /\ (isGameActive[d] /\ ~isGameActive'[d] /\ activeView'[d] = "new_game") =>
                /\ playersDoc' = playersDoc
                /\ matches' = matches
                /\ tx' = tx
          /\ (~isGameActive[d] /\ isGameActive'[d]) =>
                /\ score'[d] = NoScore
                /\ goalHistory'[d] = <<>>
                /\ winner'[d] = NoWinner
      ]_vars

\* C18 witness: a match stands at 0:0 while the commit of a confirmed 6:0 is
\* still under way and no match record exists: the won match was left by
\* "Neues Spiel" and another one started.
C18_Witness ==
    /\ isGameActive["d1"]
    /\ score["d1"] = NoScore /\ goalHistory["d1"] = <<>> /\ winner["d1"] = NoWinner
    /\ matches = <<>>
    /\ \E t \in TxIds : tx[t].pc = "run" /\ tx[t].score = [team1 |-> 6, team2 |-> 0]

\* C19: an undo takes exactly the last entry off the goal log and one goal off
\* the score of the team that entry belongs to, and leaves the other team's
\* score, the earlier entries and the teams as they are; on an empty goal log
\* it changes nothing.
C19_UndoRemovesLastGoal ==
    /\ [][\A d \in Devices :
            (isGameActive[d] /\ isGameActive'[d]
                /\ Len(goalHistory'[d]) < Len(goalHistory[d])) =>
                LET last == goalHistory[d][Len(goalHistory[d])]
                    other == IF last.teamKey = "team1" THEN "team2" ELSE "team1"
                IN  /\ Len(goalHistory'[d]) = Len(goalHistory[d]) - 1
                    /\ \A i \in 1 .. Len(goalHistory'[d]) : goalHistory'[d][i] = goalHistory[d][i]
                    /\ score'[d][last.teamKey] = score[d][last.teamKey] - 1
                    /\ score'[d][other] = score[d][other]
                    /\ team1'[d] = team1[d] /\ team2'[d] = team2[d]
         ]_vars
    /\ [](\A d \in Devices :
            (isGameActive[d] /\ goalHistory[d] = <<>>) =>
                /\ UndoneLog(goalHistory[d]) = <<>>
                /\ UndoneScore(goalHistory[d], score[d]) = score[d]
                /\ Settled(UndoneScore(goalHistory[d], score[d]), winner[d]) = winner[d])

\* C19 witness: a match at 3:2 whose last goal is Team 2's and whose goal before
\* it is Team 1's: the undo leads to 3:1 and leaves Team 1's entry last.
C19_Witness ==
    /\ isGameActive["d1"]
    /\ score["d1"] = [team1 |-> 3, team2 |-> 2]
    /\ goalHistory["d1"][5].teamKey = "team2"
    /\ goalHistory["d1"][4].teamKey = "team1"

\* The roles of a team exchanged.
Exchanged(t) == [striker |-> t.defender, defender |-> t.striker]

\* Player pid holds position `position` in the running match of device d.
Holds(d, pid, position) ==
    IF position = "striker"
    THEN pid \in {team1[d].striker.id, team2[d].striker.id}
    ELSE pid \in {team1[d].defender.id, team2[d].defender.id}

\* C20: a position swap exchanges striker and defender of one team and leaves
\* the other team, the score, the goal log and the winner as they are; a goal
\* is logged with the position its scorer holds at that moment, and the entries
\* already logged keep theirs.
C20_SwapPositionsFrame ==
    [][\A d \in Devices :
          /\ (isGameActive[d] /\ isGameActive'[d]
                /\ (team1'[d] # team1[d] \/ team2'[d] # team2[d])) =>
                /\ \/ team1'[d] = Exchanged(team1[d]) /\ team2'[d] = team2[d]
                   \/ team2'[d] = Exchanged(team2[d]) /\ team1'[d] = team1[d]
                /\ score'[d] = score[d]
                /\ goalHistory'[d] = goalHistory[d]
                /\ winner'[d] = winner[d]
          /\ (isGameActive[d] /\ Len(goalHistory'[d]) = Len(goalHistory[d]) + 1) =>
                LET e == goalHistory'[d][Len(goalHistory'[d])]
                IN  /\ Holds(d, e.player, e.position)
                    /\ \A i \in 1 .. Len(goalHistory[d]) : goalHistory'[d][i] = goalHistory[d][i]
      ]_vars

\* C20 witness: one player has scored as striker and, after a swap of
\* positions, as defender: the log holds both entries and the score is 2:0.
C20_Witness ==
    /\ isGameActive["d1"]
    /\ score["d1"] = [team1 |-> 2, team2 |-> 0]
    /\ goalHistory["d1"] =
          << [player |-> 2, position |-> "striker", teamKey |-> "team1"],
             [player |-> 2, position |-> "defender", teamKey |-> "team1"] >>
    /\ team1["d1"].defender.id = 2

\* The team shown on display side `side`.
Shown(d, side) == IF side = "left" THEN displayTeam1(d) ELSE displayTeam2(d)

\* The ids of the two players of a team.
Members(t) == {t.striker.id, t.defender.id}

\* C21: a swap of sides changes the orientation only (score, goal log, teams
\* and winner stay); in either orientation a goal is logged for, and added to
\* the score of, the team its scorer belongs to, the teams' members being those
\* of the match start; and the position button of a side exchanges the roles of
\* the team shown on that side.
C21_SwapSidesFrame ==
    [][\A d \in Devices :
          /\ (isGameActive[d] /\ isGameActive'[d] /\ isSwapped'[d] # isSwapped[d]) =>
                /\ score'[d] = score[d] /\ goalHistory'[d] = goalHistory[d]
                /\ team1'[d] = team1[d] /\ team2'[d] = team2[d]
                /\ winner'[d] = winner[d]
          /\ (isGameActive[d] /\ isGameActive'[d]) =>
                /\ Members(team1'[d]) = Members(team1[d])
                /\ Members(team2'[d]) = Members(team2[d])
          /\ (isGameActive[d] /\ Len(goalHistory'[d]) = Len(goalHistory[d]) + 1) =>
                LET e == goalHistory'[d][Len(goalHistory'[d])]
                    own == IF e.player \in Members(team1[d]) THEN "team1" ELSE "team2"
                    other == IF own = "team1" THEN "team2" ELSE "team1"
                IN  /\ e.teamKey = own
                    /\ score'[d][own] = score[d][own] + 1
                    /\ score'[d][other] = score[d][other]
          /\ \A side \in {"left", "right"} :
                SwapButton(d, side) =>
                    /\ CardPlayer(d, side, "striker")' = CardPlayer(d, side, "defender")
                    /\ CardPlayer(d, side, "defender")' = CardPlayer(d, side, "striker")
      ]_vars

\* C21 witness: with the sides swapped, the striker shown left (of Team 2) has
\* scored, giving 0:1, and the left position button has made that player
\* Team 2's defender.
C21_Witness ==
    /\ isGameActive["d1"] /\ isSwapped["d1"]
    /\ score["d1"] = [team1 |-> 0, team2 |-> 1]
    /\ goalHistory["d1"] = << [player |-> 3, position |-> "striker", teamKey |-> "team2"] >>
    /\ team2["d1"].defender.id = 3

\* ------------------------------------------- properties: closure, field by field
\* The cumulative counters of a player document.
Counters(doc) ==
    <<doc.gamesWon, doc.gamesLost, doc.totalGames, doc.gamesAsStriker, doc.gamesAsDefender,
      doc.goalsAsStriker, doc.goalsAsDefender, doc.shutoutWins, doc.totalPlaytime>>

\* C22: the writes of a closure leave every player's cumulative counters as
\* they are: the title write changes the winner's title counter and nothing
\* else, the reset changes ratings only, and no title counter but the winner's
\* changes.
C22_ResetTouchesRatingOnly ==
    [][\A d \in Devices :
          /\ (closePc[d] = "title" /\ closePc'[d] = "reset") =>
                \A p \in Players :
                    /\ Counters(playersDoc'[p]) = Counters(playersDoc[p])
                    /\ playersDoc'[p].score = playersDoc[p].score
                    /\ p # closeWinner[d].id => playersDoc'[p].seasonsWon = playersDoc[p].seasonsWon
          /\ (closePc[d] = "reset" /\ closePc'[d] = "counter") =>
                \A p \in Players :
                    /\ Counters(playersDoc'[p]) = Counters(playersDoc[p])
                    /\ playersDoc'[p].seasonsWon = playersDoc[p].seasonsWon
                    /\ playersDoc'[p].score = Baseline
          /\ (ClosureRunning(d) /\ closePc'[d] # closePc[d] /\ closePc'[d] \notin {"reset", "counter"}) =>
                playersDoc' = playersDoc
      ]_vars

\* C22 witness: a closure has completed after a committed match: the ratings
\* are at the baseline and the match still shows in the counters.
C22_Witness ==
    /\ closePc["d1"] = "done"
    /\ \A p \in Players : playersDoc[p].score = Baseline
    /\ \E p \in Players :
          /\ playersDoc[p].totalGames = 1 /\ playersDoc[p].gamesWon = 1
          /\ playersDoc[p].goalsAsStriker = 6 /\ playersDoc[p].totalPlaytime = 1
          /\ playersDoc[p].shutoutWins = 1


\* ------------------------------------------------ properties: the season's winner
\* C23: the closure picks as winner a player whose rating, in the player set the
\* closure ranks, is maximal, and of the players sharing that rating the one that
\* comes first in the set's order.
C23_WinnerIsFirstOfMaximal ==
    [][\A d \in Devices :
        (closePc[d] # "history" /\ closePc'[d] = "history") =>
            LET w == closeWinner'[d].id
            IN  /\ w \in Players
                /\ \A p \in Players : players[d][p].score <= players[d][w].score
                /\ \A p \in Players :
                      players[d][p].score = players[d][w].score => w <= p
                /\ closeWinner'[d].seasonsWon = players[d][w].seasonsWon]_vars

\* C23 witness: the closure has picked a player who is not the first of the set,
\* from a set in which a later player has the same rating and an earlier one a
\* lower rating.
C23_Witness ==
    LET w == closeWinner["d1"].id
    IN  /\ closePc["d1"] = "history"
        /\ w \in Players
        /\ \E p \in Players : p > w /\ players["d1"][p].score = players["d1"][w].score
        /\ \E p \in Players : p < w /\ players["d1"][p].score < players["d1"][w].score
        /\ \A p \in Players : players["d1"][p].score <= players["d1"][w].score

\* ------------------------------------------------ properties: commit beside a reset
\* The rating of the participant in slot i of pRefs after a match committed over
\* ratings that are all at the baseline.
AfterReset(r, i) ==
    LET delta == computeScoreChange(2 * Baseline, 2 * Baseline, isShutout(r))
    IN  IF r.winner = (IF i <= 2 THEN Team1 ELSE Team2)
        THEN Baseline + delta.winDelta
        ELSE Baseline - delta.loseDelta

\* C24: when a match commit and a closure's rating reset interleave and both have
\* completed, the four participants' ratings are either all the baseline (the
\* commit came first) or all the baseline plus or minus the delta of baseline
\* ratings (the commit came after the reset); no delta of pre-reset ratings sits
\* on a reset rating, and the match is counted once: one match record, one game
\* on each participant.
C24_CommitAndResetSerialize ==
    \A t \in TxIds, d \in Devices :
        (tx[t].pc = "done" /\ closePc[d] = "done") =>
            /\ \/ \A i \in 1 .. 4 : playersDoc[pRefs(tx[t])[i]].score = Baseline
               \/ \A i \in 1 .. 4 : playersDoc[pRefs(tx[t])[i]].score = AfterReset(tx[t], i)
            /\ \A i \in 1 .. 4 : playersDoc[pRefs(tx[t])[i]].totalGames = 1
            /\ Len(matches) = 1

\* C24 witness: a match between players of unequal ratings was confirmed, the
\* reset went in between its reads and its commit, the transaction ran again and
\* committed over the reset ratings, and the closure completed.
C24_Witness ==
    \E t \in TxIds :
        /\ tx[t].pc = "done"
        /\ tx[t].attempts >= 2
        /\ closePc["d1"] = "done"
        /\ tx[t].team1.striker.score # tx[t].team2.striker.score
        /\ \A i \in 1 .. 4 : playersDoc[pRefs(tx[t])[i]].score = AfterReset(tx[t], i)
        /\ \A i \in 1 .. 4 : tx[t].snaps[i].score = Baseline

\* ------------------------------------------------ properties: score and goal log
\* C25: in every state of a match session each team's score is the number of
\* goal-log entries of that team, so the two scores add up to the length of the
\* log, and the team of the last entry has at least one goal: the floor at 0 in
\* the undo never takes effect.
C25_ScoreCountsLog ==
    \A d \in Devices :
        isGameActive[d] =>
            /\ score[d].team1 = TeamGoals(goalHistory[d], "team1")
            /\ score[d].team2 = TeamGoals(goalHistory[d], "team2")
            /\ score[d].team1 + score[d].team2 = Len(goalHistory[d])
            /\ Len(goalHistory[d]) > 0 =>
                  /\ score[d][goalHistory[d][Len(goalHistory[d])].teamKey] >= 1
                  /\ UndoneScore(goalHistory[d], score[d])[goalHistory[d][Len(goalHistory[d])].teamKey]
                        = score[d][goalHistory[d][Len(goalHistory[d])].teamKey] - 1

\* C25 witness: a session past a declared win, with the sides swapped and goals of
\* both teams in the log, the last one by the team that is behind.
C25_Witness ==
    /\ isGameActive["d1"]
    /\ isSwapped["d1"]
    /\ score["d1"].team1 = 7
    /\ score["d1"].team2 = 4
    /\ Len(goalHistory["d1"]) = 11
    /\ goalHistory["d1"][11].teamKey = "team2"
    /\ goalHistory["d1"][1].teamKey = "team2"

\* ------------------------------------------------ properties: one commit per win
\* C26: a provisional win is committed at most once: however often the win of
\* the one match session is confirmed, also while an earlier commit is still
\* running, at most one match record is inserted and every player's totalGames
\* grows by at most 1.
C26_CommitAtMostOnce ==
    /\ Len(matches) <= 1
    /\ \A p \in Players : playersDoc[p].totalGames <= 1

\* ------------------------------------------------ properties: season numbers
\* C27: after any sequence of closures, once none is under way, the season
\* records carry pairwise distinct season numbers and the season counter is its
\* initial value plus the number of season records.
C27_SeasonNumbersDistinct ==
    (\A d \in Devices : ~ClosureRunning(d)) =>
        /\ \A i, j \in 1 .. Len(seasonHistoryCol) :
              i # j => seasonHistoryCol[i].seasonNumber # seasonHistoryCol[j].seasonNumber
        /\ appStateDoc.currentSeason = FirstSeason + Len(seasonHistoryCol)

\* ------------------------------------------------ properties: titles
\* The season records naming player p as the winner.
TitlesOf(p) == {k \in 1 .. Len(seasonHistoryCol) : seasonHistoryCol[k].winnerId = p}

\* C28: once no closure is under way, each player's title counter is the number
\* of season records whose winner is that player, also when closures are run
\* back to back before the device's player snapshot has caught up, or overlap.
C28_TitlesMatchRecords ==
    (\A d \in Devices : ~ClosureRunning(d)) =>
        \A p \in Players : playersDoc[p].seasonsWon = Cardinality(TitlesOf(p))

\* ------------------------------------------------ properties: the sum of ratings
\* The sum of the ratings `docs` holds for the four participants of match r.
RatingSum(docs, r) ==
    docs[pRefs(r)[1]].score + docs[pRefs(r)[2]].score
        + docs[pRefs(r)[3]].score + docs[pRefs(r)[4]].score

\* The final score of the team that lost match r.
LoserScore(r) == IF r.winner = Team1 THEN r.score.team2 ELSE r.score.team1

\* C29: the step that commits a match changes the sum of the four participants'
\* ratings by 0 when the loser scored, and by 10 when the loser's final score is
\* 0; the rating of every player who did not take part is unchanged.
C29_RatingSumChange ==
    [][\A t \in TxIds :
          (tx[t].pc = "run" /\ tx'[t].pc = "done") =>
              /\ RatingSum(playersDoc', tx[t]) - RatingSum(playersDoc, tx[t])
                    = (IF LoserScore(tx[t]) = 0 THEN 10 ELSE 0)
              /\ \A p \in Players :
                    ~Participates(tx[t], p) => playersDoc'[p].score = playersDoc[p].score
      ]_vars

\* C29 witness: a shutout won by Team 2 has been committed with a dynamic
\* component other than the base: the participants' ratings add up to 10 more
\* than the ratings read, and a player who did not take part has kept a rating.
C29_Witness ==
    \E t \in DoneTx :
        /\ tx[t].winner = Team2
        /\ LoserScore(tx[t]) = 0
        /\ TxDelta(tx[t], tx[t].snaps).loseDelta # Base
        /\ RatingSum(playersDoc, tx[t])
              = tx[t].snaps[1].score + tx[t].snaps[2].score
                  + tx[t].snaps[3].score + tx[t].snaps[4].score + 10
        /\ \E p \in Players : ~Participates(tx[t], p) /\ playersDoc[p].totalGames = 0

\* ------------------------------------------------ properties: the rounding of halves
\* Base + diff / DiffScale rounded to the nearest integer with halves away from
\* zero, for diff = diff2 / 2: in eightieths the value is v = 800 + diff2.
RoundHalfAway(diff2) ==
    LET v == 2 * DiffScale * Base + diff2
    IN  IF v >= 0 THEN (v + DiffScale) \div (2 * DiffScale)
        ELSE 0 - ((DiffScale - v) \div (2 * DiffScale))

\* computeScoreChange with halves rounded away from zero.
DeltaHalfAway(sumWinner, sumLoser, shutout) ==
    LET dynamic == clamp(RoundHalfAway(sumLoser - sumWinner), MinDelta, MaxDelta)
    IN  [winDelta |-> IF shutout THEN dynamic + ShutoutBonus ELSE dynamic,
         loseDelta |-> dynamic]

\* C30: for the ratings of every transaction and both values of the shutout
\* flag, the deltas computed with halves rounded up equal the deltas computed
\* with halves rounded away from zero: wherever the two roundings differ, the
\* clamp returns 1.
C30_HalfRuleUnobservable ==
    \A t \in ReadTx : \A s \in BOOLEAN :
        /\ computeScoreChange(WinSum(t), LoseSum(t), s) = DeltaHalfAway(WinSum(t), LoseSum(t), s)
        /\ RoundHalfUp(LoseSum(t) - WinSum(t)) # RoundHalfAway(LoseSum(t) - WinSum(t)) =>
              computeScoreChange(WinSum(t), LoseSum(t), s).loseDelta = 1

\* C30 witness: a match has been committed whose ratings put the unclamped value
\* on -1/2, which rounds to 0 with halves up and to -1 with halves away from
\* zero: the losers lost 1 point.
C30_Witness ==
    \E t \in DoneTx :
        /\ RoundHalfUp(LoseSum(t) - WinSum(t)) # RoundHalfAway(LoseSum(t) - WinSum(t))
        /\ RoundHalfUp(LoseSum(t) - WinSum(t)) = 0
        /\ RoundHalfAway(LoseSum(t) - WinSum(t)) = -1
        /\ TxDelta(tx[t], tx[t].snaps).loseDelta = 1
=============================================================================
